---- MODULE Spec2Model ----
(***************************************************************************)
(* A model of surfman's dynamic backend dispatcher                         *)
(* (platform/generic/multi/connection.rs) and of the Windows/ANGLE backend *)
(* connection (platform/windows/angle/connection.rs).                      *)
(*                                                                         *)
(* Every method of the two `Connection` types is a pure operator that      *)
(* returns the sequence of backend calls it performed together with its    *)
(* result.  The actions are a client that calls these methods, keeps the   *)
(* connection and the adapter it was handed, and records the last call.    *)
(*                                                                         *)
(* Record constructors list their fields in the order in which the field   *)
(* names first occur in this module, the order TLC keeps records in.       *)
(***************************************************************************)
EXTENDS Integers, Sequences, FiniteSets, TLC

\* Number of distinct backend connection values a backend constructor may return.
MaxHandle == 2
\* Native window handles range over 0..MaxHwnd; 0 is the null handle.
MaxHwnd == 2

VARIABLES sys, conn, held, angle, last

vars == <<sys, conn, held, angle, last>>

----------------------------------------------------------------------------
(* Values *)

Ok(v) == [ok |-> TRUE, val |-> v]
Err(e) == [ok |-> FALSE, err |-> e]

Backends == {"Default", "Alternate"}

\* The variants of the multi Connection / Adapter / Device enums.
ConnectionDefault(c) == [tag |-> "Default", inner |-> c]
ConnectionAlternate(c) == [tag |-> "Alternate", inner |-> c]
AdapterDefault(a) == [tag |-> "Default", inner |-> a]
AdapterAlternate(a) == [tag |-> "Alternate", inner |-> a]
DeviceDefault(d) == [tag |-> "Default", inner |-> d]
DeviceAlternate(d) == [tag |-> "Alternate", inner |-> d]

\* Result::map with an enum variant: wraps the value of an Ok, leaves an Err
\* as it is.
MapConnectionAlternate(r) == IF r.ok THEN Ok(ConnectionAlternate(r.val)) ELSE r
MapAdapterDefault(r) == IF r.ok THEN Ok(AdapterDefault(r.val)) ELSE r
MapAdapterAlternate(r) == IF r.ok THEN Ok(AdapterAlternate(r.val)) ELSE r
MapDeviceDefault(r) == IF r.ok THEN Ok(DeviceDefault(r.val)) ELSE r
MapDeviceAlternate(r) == IF r.ok THEN Ok(DeviceAlternate(r.val)) ELSE r

\* The client holds no connection / no adapter yet.
NoConnection == [tag |-> "None"]
NoAdapter == [tag |-> "None"]
NoArg == [none |-> TRUE]

\* A winit window, reduced to the native handle get_hwnd() resolves it to.
NULL == 0
Windows == [hwnd : 0..MaxHwnd]
get_hwnd(window) == window.hwnd
is_null(hwnd) == hwnd = NULL

\* A record of one call made into a backend: receiver/argument and outcome.
Call(b, m, self, arg, out) ==
    [self |-> self, arg |-> arg, out |-> out, backend |-> b, method |-> m]

----------------------------------------------------------------------------
(* The two backends the dispatcher is instantiated with.  Their code is    *)
(* outside the dispatcher; what a call returns is an input.                *)

ConnErrors == {"ConnectionFailed", "ConnectionRequired"}

\* The outcomes <B::Connection>::new() / from_winit_window() can have.
BackendConnOutcomes(b) ==
    {Ok([backend |-> b, handle |-> h]) : h \in 1..MaxHandle}
        \cup {Err(e) : e \in ConnErrors}

Backend_create_hardware_adapter(b, c, s) ==
    IF s.avail[b] THEN Ok([backend |-> b, class |-> "hardware"])
                  ELSE Err("NoHardwareAdapters")

Backend_create_low_power_adapter(b, c, s) ==
    IF s.avail[b] THEN Ok([backend |-> b, class |-> "low_power"])
                  ELSE Err("NoAdapterFound")

Backend_create_software_adapter(b, c, s) ==
    IF s.avail[b] THEN Ok([backend |-> b, class |-> "software"])
                  ELSE Err("NoSoftwareAdapters")

\* create_adapter is an alias of create_hardware_adapter in every backend.
Backend_create_adapter(b, c, s) == Backend_create_hardware_adapter(b, c, s)

Backend_create_device(b, c, a, opens) ==
    IF opens THEN Ok([backend |-> b, connection |-> c, adapter |-> a])
             ELSE Err("DeviceOpenFailed")

----------------------------------------------------------------------------
(* platform/generic/multi/connection.rs *)

\* Variant: the Alternate constructor is run before the Default's outcome is
\* looked at.
Multi_new_ProbesBoth(defOut, altOut) ==
    LET d == Call("Default", "new", NoArg, NoArg, defOut)
        a == Call("Alternate", "new", NoArg, NoArg, altOut)
    IN IF defOut.ok
       THEN [calls |-> <<d, a>>, result |-> Ok(ConnectionDefault(defOut.val))]
       ELSE [calls |-> <<d, a>>, result |-> MapConnectionAlternate(altOut)]

\* Variant: when both constructors fail, the first error is the one reported.
Multi_new_KeepsDefaultError(defOut, altOut) ==
    LET d == Call("Default", "new", NoArg, NoArg, defOut)
        a == Call("Alternate", "new", NoArg, NoArg, altOut)
    IN IF defOut.ok
       THEN [calls |-> <<d>>, result |-> Ok(ConnectionDefault(defOut.val))]
       ELSE [calls |-> <<d, a>>,
             result |-> IF altOut.ok THEN Ok(ConnectionAlternate(altOut.val))
                                     ELSE defOut]

Multi_new(defOut, altOut) ==
    LET d == Call("Default", "new", NoArg, NoArg, defOut)
        a == Call("Alternate", "new", NoArg, NoArg, altOut)
    IN IF defOut.ok
       THEN [calls |-> <<d>>, result |-> Ok(ConnectionDefault(defOut.val))]
       ELSE [calls |-> <<d, a>>, result |-> MapConnectionAlternate(altOut)]

Multi_create_adapter(self, s) ==
    IF self.tag = "Default"
    THEN LET out == Backend_create_adapter("Default", self.inner, s)
         IN [calls |-> <<Call("Default", "create_adapter", self.inner, NoArg, out)>>,
             result |-> MapAdapterDefault(out)]
    ELSE LET out == Backend_create_adapter("Alternate", self.inner, s)
         IN [calls |-> <<Call("Alternate", "create_adapter", self.inner, NoArg, out)>>,
             result |-> MapAdapterAlternate(out)]

Multi_create_hardware_adapter(self, s) ==
    IF self.tag = "Default"
    THEN LET out == Backend_create_hardware_adapter("Default", self.inner, s)
         IN [calls |-> <<Call("Default", "create_hardware_adapter", self.inner, NoArg, out)>>,
             result |-> MapAdapterDefault(out)]
    ELSE LET out == Backend_create_hardware_adapter("Alternate", self.inner, s)
         IN [calls |-> <<Call("Alternate", "create_hardware_adapter", self.inner, NoArg, out)>>,
             result |-> MapAdapterAlternate(out)]

\* Variant: the low-power request is forwarded to the hardware method.
Multi_create_low_power_adapter_AsHardware(self, s) ==
    IF self.tag = "Default"
    THEN LET out == Backend_create_hardware_adapter("Default", self.inner, s)
         IN [calls |-> <<Call("Default", "create_hardware_adapter", self.inner, NoArg, out)>>,
             result |-> MapAdapterDefault(out)]
    ELSE LET out == Backend_create_hardware_adapter("Alternate", self.inner, s)
         IN [calls |-> <<Call("Alternate", "create_hardware_adapter", self.inner, NoArg, out)>>,
             result |-> MapAdapterAlternate(out)]

Multi_create_low_power_adapter(self, s) ==
    IF self.tag = "Default"
    THEN LET out == Backend_create_low_power_adapter("Default", self.inner, s)
         IN [calls |-> <<Call("Default", "create_low_power_adapter", self.inner, NoArg, out)>>,
             result |-> MapAdapterDefault(out)]
    ELSE LET out == Backend_create_low_power_adapter("Alternate", self.inner, s)
         IN [calls |-> <<Call("Alternate", "create_low_power_adapter", self.inner, NoArg, out)>>,
             result |-> MapAdapterAlternate(out)]

Multi_create_software_adapter(self, s) ==
    IF self.tag = "Default"
    THEN LET out == Backend_create_software_adapter("Default", self.inner, s)
         IN [calls |-> <<Call("Default", "create_software_adapter", self.inner, NoArg, out)>>,
             result |-> MapAdapterDefault(out)]
    ELSE LET out == Backend_create_software_adapter("Alternate", self.inner, s)
         IN [calls |-> <<Call("Alternate", "create_software_adapter", self.inner, NoArg, out)>>,
             result |-> MapAdapterAlternate(out)]

\* Variant: the adapter's tag is not looked at; the connection's backend is
\* handed whatever the adapter wraps.
Multi_create_device_NoTagCheck(self, adapter, opens) ==
    IF self.tag = "Default"
    THEN LET out == Backend_create_device("Default", self.inner, adapter.inner, opens)
         IN [calls |-> <<Call("Default", "create_device", self.inner, adapter.inner, out)>>,
             result |-> MapDeviceDefault(out)]
    ELSE LET out == Backend_create_device("Alternate", self.inner, adapter.inner, opens)
         IN [calls |-> <<Call("Alternate", "create_device", self.inner, adapter.inner, out)>>,
             result |-> MapDeviceAlternate(out)]

\* Variant: a backend failure on a matching pair is reported as
\* IncompatibleAdapter.
Multi_create_device_RewritesError(self, adapter, opens) ==
    IF self.tag = "Default" /\ adapter.tag = "Default"
    THEN LET out == Backend_create_device("Default", self.inner, adapter.inner, opens)
         IN [calls |-> <<Call("Default", "create_device", self.inner, adapter.inner, out)>>,
             result |-> IF out.ok THEN Ok(DeviceDefault(out.val))
                                  ELSE Err("IncompatibleAdapter")]
    ELSE IF self.tag = "Alternate" /\ adapter.tag = "Alternate"
    THEN LET out == Backend_create_device("Alternate", self.inner, adapter.inner, opens)
         IN [calls |-> <<Call("Alternate", "create_device", self.inner, adapter.inner, out)>>,
             result |-> IF out.ok THEN Ok(DeviceAlternate(out.val))
                                  ELSE Err("IncompatibleAdapter")]
    ELSE [calls |-> <<>>, result |-> Err("IncompatibleAdapter")]

\* Variant: the Alternate/Alternate arm is missing and falls to the wildcard.
Multi_create_device_DefaultOnly(self, adapter, opens) ==
    IF self.tag = "Default" /\ adapter.tag = "Default"
    THEN LET out == Backend_create_device("Default", self.inner, adapter.inner, opens)
         IN [calls |-> <<Call("Default", "create_device", self.inner, adapter.inner, out)>>,
             result |-> MapDeviceDefault(out)]
    ELSE [calls |-> <<>>, result |-> Err("IncompatibleAdapter")]

Multi_create_device(self, adapter, opens) ==
    IF self.tag = "Default" /\ adapter.tag = "Default"
    THEN LET out == Backend_create_device("Default", self.inner, adapter.inner, opens)
         IN [calls |-> <<Call("Default", "create_device", self.inner, adapter.inner, out)>>,
             result |-> MapDeviceDefault(out)]
    ELSE IF self.tag = "Alternate" /\ adapter.tag = "Alternate"
    THEN LET out == Backend_create_device("Alternate", self.inner, adapter.inner, opens)
         IN [calls |-> <<Call("Alternate", "create_device", self.inner, adapter.inner, out)>>,
             result |-> MapDeviceAlternate(out)]
    ELSE [calls |-> <<>>, result |-> Err("IncompatibleAdapter")]

\* Variant: the fallback connects with new() and drops the window.
Multi_from_winit_window_FallsBackToNew(window, defOut, altOut) ==
    LET d == Call("Default", "from_winit_window", NoArg, window, defOut)
        a == Call("Alternate", "new", NoArg, NoArg, altOut)
    IN IF defOut.ok
       THEN [calls |-> <<d>>, result |-> Ok(ConnectionDefault(defOut.val))]
       ELSE [calls |-> <<d, a>>, result |-> MapConnectionAlternate(altOut)]

Multi_from_winit_window(window, defOut, altOut) ==
    LET d == Call("Default", "from_winit_window", NoArg, window, defOut)
        a == Call("Alternate", "from_winit_window", NoArg, window, altOut)
    IN IF defOut.ok
       THEN [calls |-> <<d>>, result |-> Ok(ConnectionDefault(defOut.val))]
       ELSE [calls |-> <<d, a>>, result |-> MapConnectionAlternate(altOut)]

----------------------------------------------------------------------------
(* platform/windows/angle/connection.rs *)

INTEL_PCI_ID == 32902   \* 0x8086
D3D_DRIVER_TYPE_UNKNOWN == "D3D_DRIVER_TYPE_UNKNOWN"
D3D_DRIVER_TYPE_WARP == "D3D_DRIVER_TYPE_WARP"

VendorPreferenceNone == [kind |-> "None"]
VendorPreferencePrefer(id) == [kind |-> "Prefer", vendor |-> id]
VendorPreferenceAvoid(id) == [kind |-> "Avoid", vendor |-> id]

\* The no-op connection.
AngleConnection == [tag |-> "Angle"]

\* Adapter::new(d3d_driver_type, vendor_preference): the adapter found for
\* the request, or an error when the system cannot enumerate adapters.  The
\* request made is kept as the call.
AdapterNew(d3d_driver_type, vendor_preference, s) ==
    LET request == [d3d_driver_type |-> d3d_driver_type,
                    vendor_preference |-> vendor_preference]
        out == IF s.dxgi THEN Ok(request) ELSE Err("NoAdapterFound")
    IN [calls |-> <<Call("Angle", "Adapter::new", NoArg, request, out)>>,
        result |-> out]

\* Device::new(adapter)
DeviceNew(adapter, opens) ==
    LET out == IF opens THEN Ok([adapter |-> adapter]) ELSE Err("DeviceOpenFailed")
    IN [calls |-> <<Call("Angle", "Device::new", NoArg, adapter, out)>>,
        result |-> out]

\* A method that calls nothing outside the connection.
Plain(result) == [calls |-> <<>>, result |-> result]

Angle_new == Plain(Ok(AngleConnection))

\* Variant: create_adapter prefers low-power hardware.
Angle_create_adapter_AsLowPower(self, s) ==
    AdapterNew(D3D_DRIVER_TYPE_UNKNOWN, VendorPreferencePrefer(INTEL_PCI_ID), s)

Angle_create_hardware_adapter(self, s) ==
    AdapterNew(D3D_DRIVER_TYPE_UNKNOWN, VendorPreferenceAvoid(INTEL_PCI_ID), s)

Angle_create_adapter(self, s) == Angle_create_hardware_adapter(self, s)

\* Variant: the low-power request avoids the Intel vendor id as well.
Angle_create_low_power_adapter_Avoids(self, s) ==
    AdapterNew(D3D_DRIVER_TYPE_UNKNOWN, VendorPreferenceAvoid(INTEL_PCI_ID), s)

Angle_create_low_power_adapter(self, s) ==
    AdapterNew(D3D_DRIVER_TYPE_UNKNOWN, VendorPreferencePrefer(INTEL_PCI_ID), s)

Angle_create_software_adapter(self, s) ==
    AdapterNew(D3D_DRIVER_TYPE_WARP, VendorPreferenceNone, s)

Angle_create_device(self, adapter, opens) == DeviceNew(adapter, opens)

Angle_from_winit_window(window) == Angle_new

\* Variant: the handle is wrapped without the null check.
Angle_create_native_widget_NoNullCheck(self, window) ==
    Plain(Ok([window_handle |-> get_hwnd(window)]))

Angle_create_native_widget_from_winit_window(self, window) ==
    LET hwnd == get_hwnd(window)
    IN IF is_null(hwnd)
       THEN Plain(Err("IncompatibleNativeWidget"))
       ELSE Plain(Ok([window_handle |-> hwnd]))

----------------------------------------------------------------------------
(* The client *)

\* What the backends find on this system: whether each dispatcher backend
\* can enumerate adapters, and whether DXGI can.
Systems == [avail : [Backends -> BOOLEAN], dxgi : BOOLEAN]

Record(layer, op, self, arg, r) ==
    [self |-> self, arg |-> arg, calls |-> r.calls, result |-> r.result,
     layer |-> layer, op |-> op]

Init ==
    /\ sys \in Systems
    /\ conn = NoConnection
    /\ held = [adapter |-> NoAdapter, from |-> NoConnection]
    /\ angle = NoConnection
    /\ last = Record("none", "none", NoArg, NoArg, [calls |-> <<>>, result |-> Err("none")])

\* A successful constructor hands the client its connection; a failed one
\* leaves the client with what it had.
MultiConnect(op, arg, r) ==
    /\ last' = Record("multi", op, NoArg, arg, r)
    /\ conn' = IF r.result.ok THEN r.result.val ELSE conn
    /\ UNCHANGED <<sys, held, angle>>

MultiNew ==
    \E defOut \in BackendConnOutcomes("Default"),
       altOut \in BackendConnOutcomes("Alternate") :
        MultiConnect("new", NoArg, Multi_new(defOut, altOut))

MultiFromWinitWindow ==
    \E window \in Windows,
       defOut \in BackendConnOutcomes("Default"),
       altOut \in BackendConnOutcomes("Alternate") :
        MultiConnect("from_winit_window", window,
                     Multi_from_winit_window(window, defOut, altOut))

\* The adapter-creation methods borrow the connection; the client keeps the
\* adapter it was handed last, remembering the connection it came from.
MultiAdapterCall(op, r) ==
    /\ conn # NoConnection
    /\ last' = Record("multi", op, conn, NoArg, r)
    /\ held' = IF r.result.ok THEN [adapter |-> r.result.val, from |-> conn]
                              ELSE held
    /\ UNCHANGED <<sys, conn, angle>>

MultiCreateAdapter ==
    MultiAdapterCall("create_adapter", Multi_create_adapter(conn, sys))

MultiCreateHardwareAdapter ==
    MultiAdapterCall("create_hardware_adapter", Multi_create_hardware_adapter(conn, sys))

MultiCreateLowPowerAdapter ==
    MultiAdapterCall("create_low_power_adapter", Multi_create_low_power_adapter(conn, sys))

MultiCreateSoftwareAdapter ==
    MultiAdapterCall("create_software_adapter", Multi_create_software_adapter(conn, sys))

\* The adapter passed is the one the client holds, which may come from the
\* present connection or from one it had before.
MultiCreateDevice ==
    /\ conn # NoConnection
    /\ held.adapter # NoAdapter
    /\ \E opens \in BOOLEAN :
          last' = Record("multi", "create_device", conn, held,
                         Multi_create_device(conn, held.adapter, opens))
    /\ UNCHANGED <<sys, conn, held, angle>>

AngleNew ==
    /\ last' = Record("angle", "new", NoArg, NoArg, Angle_new)
    /\ angle' = Angle_new.result.val
    /\ UNCHANGED <<sys, conn, held>>

AngleFromWinitWindow ==
    /\ \E window \in Windows :
          /\ last' = Record("angle", "from_winit_window", NoArg, window,
                            Angle_from_winit_window(window))
          /\ angle' = Angle_from_winit_window(window).result.val
    /\ UNCHANGED <<sys, conn, held>>

AngleCall(op, arg, r) ==
    /\ angle # NoConnection
    /\ last' = Record("angle", op, angle, arg, r)
    /\ UNCHANGED <<sys, conn, held, angle>>

AngleCreateAdapter ==
    AngleCall("create_adapter", NoArg, Angle_create_adapter(angle, sys))

AngleCreateHardwareAdapter ==
    AngleCall("create_hardware_adapter", NoArg, Angle_create_hardware_adapter(angle, sys))

AngleCreateLowPowerAdapter ==
    AngleCall("create_low_power_adapter", NoArg, Angle_create_low_power_adapter(angle, sys))

AngleCreateSoftwareAdapter ==
    AngleCall("create_software_adapter", NoArg, Angle_create_software_adapter(angle, sys))

\* The device is opened for the adapter the previous call returned.
AngleCreateDevice ==
    /\ last.layer = "angle"
    /\ last.op \in {"create_adapter", "create_hardware_adapter",
                    "create_low_power_adapter", "create_software_adapter"}
    /\ last.result.ok
    /\ \E opens \in BOOLEAN :
          AngleCall("create_device", last.result.val,
                    Angle_create_device(angle, last.result.val, opens))

AngleCreateNativeWidget ==
    \E window \in Windows :
        AngleCall("create_native_widget_from_winit_window", window,
                  Angle_create_native_widget_from_winit_window(angle, window))

Next ==
    \/ MultiNew
    \/ MultiFromWinitWindow
    \/ MultiCreateAdapter
    \/ MultiCreateHardwareAdapter
    \/ MultiCreateLowPowerAdapter
    \/ MultiCreateSoftwareAdapter
    \/ MultiCreateDevice
    \/ AngleNew
    \/ AngleFromWinitWindow
    \/ AngleCreateAdapter
    \/ AngleCreateHardwareAdapter
    \/ AngleCreateLowPowerAdapter
    \/ AngleCreateSoftwareAdapter
    \/ AngleCreateDevice
    \/ AngleCreateNativeWidget

Spec == Init /\ [][Next]_vars

----------------------------------------------------------------------------
(* Properties *)

AdapterOps == {"create_adapter", "create_hardware_adapter",
               "create_low_power_adapter", "create_software_adapter"}

IsMulti(op) == last.layer = "multi" /\ last.op = op
IsAngle(op) == last.layer = "angle" /\ last.op = op

\* What the dispatcher returns for a backend outcome wrapped under a tag.
Wrapped(tag, out) == IF out.ok THEN Ok([tag |-> tag, inner |-> out.val]) ELSE out

\* The backend method of the given name, for backend b and its connection c.
BackendAdapterMethod(op, b, c, s) ==
    CASE op = "create_adapter" -> Backend_create_adapter(b, c, s)
      [] op = "create_hardware_adapter" -> Backend_create_hardware_adapter(b, c, s)
      [] op = "create_low_power_adapter" -> Backend_create_low_power_adapter(b, c, s)
      [] op = "create_software_adapter" -> Backend_create_software_adapter(b, c, s)

\* C1: Connection::new() probes the Default backend first; whenever the
\* Default constructor succeeds, the result is the Default-tagged connection
\* wrapping exactly the value that constructor returned, and the Alternate
\* constructor is not invoked during the call.
C1_DefaultSuccessWins ==
    IsMulti("new") =>
        /\ Len(last.calls) >= 1
        /\ last.calls[1].backend = "Default"
        /\ last.calls[1].method = "new"
        /\ last.calls[1].out.ok =>
              /\ last.result = Ok(ConnectionDefault(last.calls[1].out.val))
              /\ \A i \in 1..Len(last.calls) : last.calls[i].backend # "Alternate"

C1_Witness ==
    /\ IsMulti("new")
    /\ last.calls[1].out.ok
    /\ last.result.ok
    /\ last.result.val.inner.handle = MaxHandle

\* C2: whenever the Default constructor fails, Connection::new() invokes
\* the Alternate constructor exactly once and returns its outcome as-is: the
\* Alternate-tagged connection wrapping the Alternate's value, or exactly the
\* Alternate's error; the Default's error is never the one returned.
C2_FallbackReturnsAlternateOutcome ==
    (IsMulti("new") /\ ~last.calls[1].out.ok) =>
        /\ Len(last.calls) = 2
        /\ last.calls[1].backend = "Default"
        /\ last.calls[2].backend = "Alternate"
        /\ last.calls[2].method = "new"
        /\ last.calls[2].out.ok =>
              last.result = Ok(ConnectionAlternate(last.calls[2].out.val))
        /\ ~last.calls[2].out.ok => last.result = last.calls[2].out

C2_Witness ==
    /\ IsMulti("new")
    /\ Len(last.calls) = 2
    /\ ~last.calls[1].out.ok
    /\ ~last.calls[2].out.ok
    /\ last.calls[1].out # last.calls[2].out
    /\ last.result = last.calls[2].out

\* C3: create_device on a connection and an adapter of different tags
\* returns IncompatibleAdapter, whether or not the adapter's own backend
\* would open it, and invokes no backend device constructor.
C3_CrossPairingRejected ==
    (IsMulti("create_device") /\ last.self.tag # last.arg.adapter.tag) =>
        /\ last.result = Err("IncompatibleAdapter")
        /\ last.calls = <<>>

C3_Witness ==
    /\ IsMulti("create_device")
    /\ last.self.tag = "Default"
    /\ last.arg.adapter.tag = "Alternate"
    /\ last.result = Err("IncompatibleAdapter")

\* C4: create_device on a connection and an adapter of the same tag invokes
\* the device constructor of exactly that tag's backend, once, with the
\* wrapped connection and adapter; a success is a Device of that same tag
\* wrapping the backend's device, a failure is the backend's error unchanged.
C4_MatchingPairForwards ==
    (IsMulti("create_device") /\ last.self.tag = last.arg.adapter.tag) =>
        /\ Len(last.calls) = 1
        /\ last.calls[1].backend = last.self.tag
        /\ last.calls[1].method = "create_device"
        /\ last.calls[1].self = last.self.inner
        /\ last.calls[1].arg = last.arg.adapter.inner
        /\ \E opens \in BOOLEAN :
              last.calls[1].out = Backend_create_device(last.self.tag, last.self.inner,
                                                        last.arg.adapter.inner, opens)
        /\ last.result = Wrapped(last.self.tag, last.calls[1].out)

C4_Witness ==
    /\ IsMulti("create_device")
    /\ last.self.tag = "Alternate"
    /\ last.arg.adapter.tag = "Alternate"
    /\ last.result = Err("DeviceOpenFailed")

\* C5: each of the four adapter-creation methods of the dispatcher makes
\* one call, to the method of the same name of the live backend connection;
\* a success is the Adapter of the connection's tag wrapping the backend's
\* adapter, a failure is the backend's error unchanged.
C5_AdapterMethodsForward ==
    (last.layer = "multi" /\ last.op \in AdapterOps) =>
        /\ Len(last.calls) = 1
        /\ last.calls[1].backend = last.self.tag
        /\ last.calls[1].method = last.op
        /\ last.calls[1].self = last.self.inner
        /\ last.calls[1].out =
              BackendAdapterMethod(last.op, last.self.tag, last.self.inner, sys)
        /\ last.result = Wrapped(last.self.tag, last.calls[1].out)

C5_Witness ==
    /\ IsMulti("create_low_power_adapter")
    /\ last.self.tag = "Alternate"
    /\ last.result = Ok(AdapterAlternate([backend |-> "Alternate", class |-> "low_power"]))

\* C6: on the same connection and system, what create_adapter() returned is
\* what create_hardware_adapter() returns and the other way round, on the
\* Windows/ANGLE connection and on a dispatcher connection of either tag.
C6_CreateAdapterIsAlias ==
    /\ IsAngle("create_adapter") =>
          last.result = Angle_create_hardware_adapter(last.self, sys).result
    /\ IsAngle("create_hardware_adapter") =>
          last.result = Angle_create_adapter(last.self, sys).result
    /\ IsMulti("create_adapter") =>
          last.result = Multi_create_hardware_adapter(last.self, sys).result
    /\ IsMulti("create_hardware_adapter") =>
          last.result = Multi_create_adapter(last.self, sys).result

C6_Witness ==
    /\ IsAngle("create_adapter")
    /\ last.result.ok
    /\ last.result.val.vendor_preference.kind = "Avoid"

\* C7: on the Windows/ANGLE connection, create_hardware_adapter and
\* create_low_power_adapter request the same driver type (unknown) with
\* vendor preference Avoid(0x8086) and Prefer(0x8086) respectively, and
\* create_software_adapter requests the WARP driver type with preference None.
C7_AngleAdapterRequests ==
    /\ IsAngle("create_hardware_adapter") =>
          /\ Len(last.calls) = 1
          /\ last.calls[1].method = "Adapter::new"
          /\ last.calls[1].arg = [d3d_driver_type |-> "D3D_DRIVER_TYPE_UNKNOWN",
                                  vendor_preference |-> [kind |-> "Avoid", vendor |-> 32902]]
    /\ IsAngle("create_low_power_adapter") =>
          /\ Len(last.calls) = 1
          /\ last.calls[1].method = "Adapter::new"
          /\ last.calls[1].arg = [d3d_driver_type |-> "D3D_DRIVER_TYPE_UNKNOWN",
                                  vendor_preference |-> [kind |-> "Prefer", vendor |-> 32902]]
    /\ IsAngle("create_software_adapter") =>
          /\ Len(last.calls) = 1
          /\ last.calls[1].method = "Adapter::new"
          /\ last.calls[1].arg = [d3d_driver_type |-> "D3D_DRIVER_TYPE_WARP",
                                  vendor_preference |-> [kind |-> "None"]]

C7_Witness ==
    /\ IsAngle("create_low_power_adapter")
    /\ last.calls[1].arg.vendor_preference.kind = "Prefer"
    /\ last.result.ok

\* C8: on the Windows/ANGLE connection, create_native_widget_from_winit_window
\* returns IncompatibleNativeWidget exactly when the window's native handle is
\* null; for a non-null handle it returns the widget wrapping that handle, so
\* no widget it returns holds the null handle.
C8_NullHandleRejected ==
    IsAngle("create_native_widget_from_winit_window") =>
        /\ (last.result = Err("IncompatibleNativeWidget")) <=> (last.arg.hwnd = 0)
        /\ last.arg.hwnd # 0 => last.result = Ok([window_handle |-> last.arg.hwnd])
        /\ last.result.ok => last.result.val.window_handle # 0

C8_Witness ==
    /\ IsAngle("create_native_widget_from_winit_window")
    /\ last.arg.hwnd = 0
    /\ last.result = Err("IncompatibleNativeWidget")

\* C9: Connection::from_winit_window(window) is the probe of new() with each
\* backend's from_winit_window(window): the Default backend is asked first
\* with the window; if it succeeds the result is the Default-tagged connection
\* and the Alternate is not asked; otherwise the Alternate is asked once with
\* the same window and its outcome is returned as-is.
C9_WindowProbeLikeNew ==
    IsMulti("from_winit_window") =>
        /\ Len(last.calls) >= 1
        /\ \A i \in 1..Len(last.calls) :
              /\ last.calls[i].method = "from_winit_window"
              /\ last.calls[i].arg = last.arg
        /\ last.calls[1].backend = "Default"
        /\ last.calls[1].out.ok =>
              /\ Len(last.calls) = 1
              /\ last.result = Ok(ConnectionDefault(last.calls[1].out.val))
        /\ ~last.calls[1].out.ok =>
              /\ Len(last.calls) = 2
              /\ last.calls[2].backend = "Alternate"
              /\ last.result = Wrapped("Alternate", last.calls[2].out)
        /\ last.result =
              Multi_new(last.calls[1].out, last.calls[Len(last.calls)].out).result

C9_Witness ==
    /\ IsMulti("from_winit_window")
    /\ Len(last.calls) = 2
    /\ last.arg.hwnd = MaxHwnd
    /\ last.result.ok
    /\ last.result.val.tag = "Alternate"

\* C10: a create_device call of a connection on an adapter that one of its
\* own adapter-creation methods returned passes the tag check (the backend's
\* device constructor is invoked and its outcome is the result), and every
\* adapter-creation and device-creation call, successful or not, is made on
\* the client's connection and leaves that connection as it was.
C10_OwnAdaptersAccepted ==
    [][ (last'.layer = "multi" /\ last'.op \in AdapterOps \cup {"create_device"}) =>
          /\ conn' = conn
          /\ last'.self = conn
          /\ (last'.op = "create_device" /\ last'.arg.from = last'.self) =>
                /\ Len(last'.calls) = 1
                /\ last'.calls[1].method = "create_device"
                /\ last'.result = Wrapped(last'.self.tag, last'.calls[1].out)
      ]_vars

C10_Witness ==
    /\ IsMulti("create_device")
    /\ last.arg.from = last.self
    /\ last.self.tag = "Alternate"
    /\ last.result.ok

====
